---- MODULE Spec2Model ----
(***************************************************************************)
(* Model of the vault service of src/index.js: the credential store        *)
(* (users), the item store (vault), the token service (jwt.sign /          *)
(* jwt.verify as used by login and authMiddleware), the session resolver   *)
(* (authMiddleware) and the six GraphQL resolvers of `root`.               *)
(*                                                                         *)
(* JavaScript strings that the code only compares (usernames, passwords,   *)
(* roles, error messages) are TLA+ strings.  Strings the code takes apart  *)
(* (content and searchTerm for String.includes, id for parseInt, the       *)
(* authorization header for String.replace) are sequences of pieces.       *)
(***************************************************************************)
EXTENDS Integers, Sequences, FiniteSets, TLC

VARIABLES users, vault, now, held, last, pending

vars == <<users, vault, now, held, last, pending>>

(***************************************************************************)
(* Bounds of the model.                                                    *)
(***************************************************************************)
\* createVaultItem is taken only while the store has fewer items than this
MaxItems == 5
\* the clock advances at most this many times
MaxTicks == 3

\* createVaultItem calls that may be between building the item and appending it
MaxInFlight == 2

\* items the store may hold when createVaultItem calls interleave
MaxRaceItems == 6
\* seconds by which one clock step advances Date.now() / 1000
Quantum == 1800

(***************************************************************************)
(* Program constants.                                                      *)
(***************************************************************************)
\* (60 * 60) seconds of token life, src/index.js:105
ExpirySeconds == 3600

SECRET_KEY == "SECRET_KEY"

OTHER_KEY == "not the SECRET_KEY"

\* process.env.FLAG
FLAG == <<"F", "L", "A", "G", "{", "r", "}">>

\* process.env.ADMIN_PASSWORD, or the random 'temp_...' fallback
ADMIN_PASSWORD == "temp_k3x9"

\* the absent value (undefined / no entry): an empty box; a present value v is <<v>>
None == <<>>

Some(v) == <<v>>

\* JavaScript truthiness of a boxed value
Truthy(box) == box # None

(***************************************************************************)
(* Mock database, src/index.js:44-55                                       *)
(***************************************************************************)
SeedUsers ==
    << [id |-> 1, username |-> "stewie", password |-> ADMIN_PASSWORD, role |-> "admin"],
       [id |-> 2, username |-> "admin", password |-> "admin", role |-> "admiin"],
       [id |-> 3, username |-> "user1", password |-> "admin123", role |-> "user"] >>

SeedVault ==
    << [id |-> 1, ownerId |-> 1, content |-> FLAG, isPublic |-> FALSE],
       [id |-> 2, ownerId |-> 2,
        content |-> <<"N","o","t","h","i","n","g"," ","t","o"," ","s","e","e"," ","h","e","r","e">>,
        isPublic |-> FALSE],
       [id |-> 3, ownerId |-> 1,
        content |-> <<"P","u","b","l","i","c"," ","n","o","t","e">>,
        isPublic |-> TRUE],
       [id |-> 4, ownerId |-> 1,
        content |-> <<"F","A","K","E","_","F","L","A","G","{","d","u","m","m","y","_","f","l","a","g","}">>,
        isPublic |-> FALSE] >>

(***************************************************************************)
(* Array and string primitives of the language runtime.                    *)
(***************************************************************************)
\* the elements of an array
elements(arr) == {arr[k] : k \in 1..Len(arr)}

\* Array.prototype.filter; the callback is given by the set of the elements
\* for which it returns true
filter(arr, keep) ==
    LET kept[i \in 0..Len(arr)] ==
            IF i = 0 THEN <<>>
            ELSE IF arr[i] \in keep THEN Append(kept[i - 1], arr[i]) ELSE kept[i - 1]
    IN  kept[Len(arr)]

\* index of the first element for which the callback returns true, 0 when
\* there is none
findIndex(arr, test) ==
    IF \E i \in 1..Len(arr) : arr[i] \in test
    THEN CHOOSE i \in 1..Len(arr) : arr[i] \in test /\ \A j \in 1..(i - 1) : arr[j] \notin test
    ELSE 0

\* Array.prototype.find: the first matching element boxed, None for undefined
find(arr, test) ==
    IF findIndex(arr, test) = 0 THEN None ELSE Some(arr[findIndex(arr, test)])

\* String.prototype.includes
includes(str, searchString) ==
    \E i \in 0..(Len(str) - Len(searchString)) :
        SubSeq(str, i + 1, i + Len(searchString)) = searchString

\* String.prototype.replace with a string pattern: the first occurrence only
replace(str, pattern, replacement) ==
    LET at(i) == SubSeq(str, i, i + Len(pattern) - 1) = pattern
        hits == {i \in 1..(Len(str) - Len(pattern) + 1) : at(i)}
    IN  IF hits = {} THEN str
        ELSE LET i == CHOOSE h \in hits : \A g \in hits : h <= g
             IN  SubSeq(str, 1, i - 1) \o replacement
                     \o SubSeq(str, i + Len(pattern), Len(str))

\* value of a decimal digit character, -1 for any other character
digit(c) ==
    CASE c = "0" -> 0 [] c = "1" -> 1 [] c = "2" -> 2 [] c = "3" -> 3 [] c = "4" -> 4
      [] c = "5" -> 5 [] c = "6" -> 6 [] c = "7" -> 7 [] c = "8" -> 8 [] c = "9" -> 9
      [] OTHER -> -1

\* the not-a-number value: equal to no item id
NaN == [nan |-> TRUE, n |-> 0]

Number(n) == [nan |-> FALSE, n |-> n]

\* parseInt(string) in radix 10: leading blanks are skipped, an optional sign
\* is read, then the longest run of digits; NaN when that run is empty
parseInt(string) ==
    LET blanks[i \in 0..Len(string)] ==
            IF i < Len(string) /\ string[i + 1] = " " THEN blanks[i + 1] ELSE i
        start == blanks[0]
        signed == start < Len(string) /\ string[start + 1] \in {"-", "+"}
        sign == IF signed /\ string[start + 1] = "-" THEN -1 ELSE 1
        first == IF signed THEN start + 1 ELSE start
        \* run[i] = <<value of the digits read from first+1 to i, stopped>>
        run[i \in first..Len(string)] ==
            IF i = first THEN <<0, FALSE>>
            ELSE IF run[i - 1][2] \/ digit(string[i]) < 0 THEN <<run[i - 1][1], TRUE>>
                 ELSE <<run[i - 1][1] * 10 + digit(string[i]), FALSE>>
    IN  IF first >= Len(string) \/ digit(string[first + 1]) < 0 THEN NaN
        ELSE Number(sign * run[Len(string)][1])

(***************************************************************************)
(* Token service: jsonwebtoken as called at src/index.js:101-109, 160-164  *)
(***************************************************************************)
\* a piece of an authorization header: the text 'Bearer ', an encoded token,
\* or text that is no token
BearerPrefix == [kind |-> "Bearer "]

Garbage == [kind |-> "garbage"]

\* jwt.sign(payload, secretOrPrivateKey, options): the encoded token; iat is
\* added from the clock
jwt_sign(payload, secretOrPrivateKey, options) ==
    [kind |-> "jwt", alg |-> options.algorithm, key |-> secretOrPrivateKey,
     payload |-> [userId |-> payload.userId, role |-> payload.role,
                  exp |-> payload.exp, iat |-> now]]

\* jwt.verify(token, secretOrPublicKey, options): the decoded payload, or the
\* message of the error it throws
\* variant: the expiry of the token is not checked
jwt_verify_noexp(jwtString, secretOrPublicKey, options) ==
    IF jwtString = <<>> THEN [threw |-> Some("jwt must be provided"), decoded |-> None]
    ELSE IF Len(jwtString) # 1 \/ jwtString[1].kind # "jwt"
    THEN [threw |-> Some("jwt malformed"), decoded |-> None]
    ELSE IF jwtString[1].alg \notin options.algorithms
    THEN [threw |-> Some("invalid algorithm"), decoded |-> None]
    ELSE IF jwtString[1].key # secretOrPublicKey
    THEN [threw |-> Some("invalid signature"), decoded |-> None]
    ELSE [threw |-> None, decoded |-> Some(jwtString[1].payload)]

\* variant: the algorithm named by the token is not held against the allowed ones
jwt_verify_anyalg(jwtString, secretOrPublicKey, options) ==
    IF jwtString = <<>> THEN [threw |-> Some("jwt must be provided"), decoded |-> None]
    ELSE IF Len(jwtString) # 1 \/ jwtString[1].kind # "jwt"
    THEN [threw |-> Some("jwt malformed"), decoded |-> None]
    ELSE IF jwtString[1].key # secretOrPublicKey
    THEN [threw |-> Some("invalid signature"), decoded |-> None]
    ELSE IF now >= jwtString[1].payload.exp
    THEN [threw |-> Some("jwt expired"), decoded |-> None]
    ELSE [threw |-> None, decoded |-> Some(jwtString[1].payload)]

jwt_verify(jwtString, secretOrPublicKey, options) ==
    IF jwtString = <<>> THEN [threw |-> Some("jwt must be provided"), decoded |-> None]
    ELSE IF Len(jwtString) # 1 \/ jwtString[1].kind # "jwt"
    THEN [threw |-> Some("jwt malformed"), decoded |-> None]
    ELSE IF jwtString[1].alg \notin options.algorithms
    THEN [threw |-> Some("invalid algorithm"), decoded |-> None]
    ELSE IF jwtString[1].key # secretOrPublicKey
    THEN [threw |-> Some("invalid signature"), decoded |-> None]
    ELSE IF now >= jwtString[1].payload.exp
    THEN [threw |-> Some("jwt expired"), decoded |-> None]
    ELSE [threw |-> None, decoded |-> Some(jwtString[1].payload)]

(***************************************************************************)
(* Authentication middleware, src/index.js:156-172                         *)
(***************************************************************************)
\* the context object {} : no property at all
EmptyObject == [k \in {} |-> None]

\* context.user: undefined when the object has no such property
user_of(context) == IF "user" \in DOMAIN context THEN context.user ELSE None

\* variant: the token is decoded without verifying signature or expiry
authMiddleware_decodeonly(req) ==
    LET token == replace(req.headers.authorization, <<BearerPrefix>>, <<>>)
    IN  IF Len(token) = 1 /\ token[1].kind = "jwt"
        THEN [user |-> find(users, {u \in elements(users) : u.id = token[1].payload.userId})]
        ELSE EmptyObject

\* variant: the 'Bearer ' prefix is not stripped before verification
authMiddleware_noprefix(req) ==
    LET token == req.headers.authorization
    IN  IF token # <<>>
        THEN LET decoded == jwt_verify(token, SECRET_KEY, [algorithms |-> {"HS256"}])
             IN  IF Truthy(decoded.threw) THEN EmptyObject
                 ELSE [user |-> find(users, {u \in elements(users) : u.id = decoded.decoded[1].userId})]
        ELSE EmptyObject

authMiddleware(req) ==
    LET token == req.headers.authorization
    IN  IF token # <<>>
        THEN LET decoded == jwt_verify(replace(token, <<BearerPrefix>>, <<>>),
                                       SECRET_KEY, [algorithms |-> {"HS256"}])
             IN  IF Truthy(decoded.threw) THEN EmptyObject
                 ELSE [user |-> find(users, {u \in elements(users) : u.id = decoded.decoded[1].userId})]
        ELSE EmptyObject

(***************************************************************************)
(* Resolvers, src/index.js:95-151.  A resolver yields its outcome: the     *)
(* message of the Error it throws or the value it returns, and the item    *)
(* store as it leaves it.                                                  *)
(***************************************************************************)
Throw(message, store) == [threw |-> Some(message), value |-> None, vault |-> store]

Return(value, store) == [threw |-> None, value |-> Some(value), vault |-> store]

\* variant: the password is not compared
login_usernameonly(args, context) ==
    LET user == find(users, {u \in elements(users) : u.username = args.username})
    IN  IF ~Truthy(user) THEN Throw("Invalid credentials", vault)
        ELSE Return([token |-> jwt_sign([userId |-> user[1].id,
                                         role |-> user[1].role,
                                         exp |-> now + ExpirySeconds],
                                        SECRET_KEY, [algorithm |-> "HS256"]),
                     user |-> user[1]],
                    vault)

login(args, context) ==
    LET user == find(users, {u \in elements(users) : u.username = args.username
                                        /\ u.password = args.password})
    IN  IF ~Truthy(user) THEN Throw("Invalid credentials", vault)
        ELSE Return([token |-> jwt_sign([userId |-> user[1].id,
                                         role |-> user[1].role,
                                         exp |-> now + ExpirySeconds],
                                        SECRET_KEY, [algorithm |-> "HS256"]),
                     user |-> user[1]],
                    vault)

\* variant: the bypass matches the role by its prefix, so 'admiin' passes too
vaultItems_roleprefix(args, context) ==
    IF ~Truthy(user_of(context)) THEN Throw("Not authenticated", vault)
    ELSE IF user_of(context)[1].role \in {"admin", "admiin"} THEN Return(vault, vault)
    ELSE Return(filter(vault, {i \in elements(vault) : i.ownerId = user_of(context)[1].id \/ i.isPublic}),
                vault)

\* variant: no role bypass, every caller gets the filtered list
vaultItems_nobypass(args, context) ==
    IF ~Truthy(user_of(context)) THEN Throw("Not authenticated", vault)
    ELSE Return(filter(vault, {i \in elements(vault) : i.ownerId = user_of(context)[1].id \/ i.isPublic}),
                vault)

vaultItems(args, context) ==
    IF ~Truthy(user_of(context)) THEN Throw("Not authenticated", vault)
    ELSE IF user_of(context)[1].role = "admin" THEN Return(vault, vault)
    ELSE Return(filter(vault, {i \in elements(vault) : i.ownerId = user_of(context)[1].id \/ i.isPublic}),
                vault)

\* variant: an authenticated caller is shown the items it owns as well
publicVaultItems_plusown(args, context) ==
    Return(filter(vault, {i \in elements(vault) :
                i.isPublic \/ (Truthy(user_of(context))
                               /\ i.ownerId = user_of(context)[1].id)}),
           vault)

\* variant: the store itself is cut down to the public items
publicVaultItems_inplace(args, context) ==
    Return(filter(vault, {i \in elements(vault) : i.isPublic}),
           filter(vault, {i \in elements(vault) : i.isPublic}))

publicVaultItems(args, context) ==
    Return(filter(vault, {i \in elements(vault) : i.isPublic}), vault)

\* variant: the role bypass of vaultItems is applied to the search as well
searchVault_bypass(args, context) ==
    Return(filter(vault, {i \in elements(vault) :
                /\ includes(i.content, args.searchTerm)
                /\ (i.isPublic \/ (Truthy(user_of(context))
                                   /\ (i.ownerId = user_of(context)[1].id
                                       \/ user_of(context)[1].role = "admin")))}),
           vault)

searchVault(args, context) ==
    Return(filter(vault, {i \in elements(vault) :
                /\ includes(i.content, args.searchTerm)
                /\ (i.isPublic \/ (Truthy(user_of(context))
                                   /\ i.ownerId = user_of(context)[1].id))}),
           vault)

\* variant: the caller is not checked, an item without owner is stored
createVaultItem_anonymous(args, context) ==
    LET newItem == [id |-> Len(vault) + 1,
                    ownerId |-> IF Truthy(user_of(context)) THEN user_of(context)[1].id ELSE 0,
                    content |-> args.content,
                    isPublic |-> args.isPublic]
    IN  Return(newItem, Append(vault, newItem))

\* variant: the item is stored before its fields are copied from the arguments
createVaultItem_blank(args, context) ==
    IF ~Truthy(user_of(context)) THEN Throw("Not authenticated", vault)
    ELSE LET newItem == [id |-> Len(vault) + 1,
                         ownerId |-> user_of(context)[1].id,
                         content |-> args.content,
                         isPublic |-> args.isPublic]
         IN  Return(newItem, Append(vault, [newItem EXCEPT !.isPublic = FALSE]))

\* variant: the id is the item count itself, not the count plus one
createVaultItem_idcount(args, context) ==
    IF ~Truthy(user_of(context)) THEN Throw("Not authenticated", vault)
    ELSE LET newItem == [id |-> Len(vault),
                         ownerId |-> user_of(context)[1].id,
                         content |-> args.content,
                         isPublic |-> args.isPublic]
         IN  Return(newItem, Append(vault, newItem))

createVaultItem(args, context) ==
    IF ~Truthy(user_of(context)) THEN Throw("Not authenticated", vault)
    ELSE LET newItem == [id |-> Len(vault) + 1,
                         ownerId |-> user_of(context)[1].id,
                         content |-> args.content,
                         isPublic |-> args.isPublic]
         IN  Return(newItem, Append(vault, newItem))

\* variant: only the owner of an item may publish it
makeVaultItemPublic_owneronly(args, context) ==
    IF ~Truthy(user_of(context)) THEN Throw("Not authenticated", vault)
    ELSE LET at == findIndex(vault, {i \in elements(vault) : Number(i.id) = parseInt(args.id)})
         IN  IF at = 0 THEN Throw("Item not found", vault)
             ELSE IF vault[at].ownerId # user_of(context)[1].id
             THEN Throw("Not authorized", vault)
             ELSE Return([vault[at] EXCEPT !.isPublic = TRUE],
                         [vault EXCEPT ![at].isPublic = TRUE])

\* variant: a copy of the item is published, the stored item is left as it was
makeVaultItemPublic_copy(args, context) ==
    IF ~Truthy(user_of(context)) THEN Throw("Not authenticated", vault)
    ELSE LET at == findIndex(vault, {i \in elements(vault) : Number(i.id) = parseInt(args.id)})
         IN  IF at = 0 THEN Throw("Item not found", vault)
             ELSE Return([vault[at] EXCEPT !.isPublic = TRUE], vault)

\* variant: the item is looked up and published before the caller is checked
makeVaultItemPublic_publishfirst(args, context) ==
    LET at == findIndex(vault, {i \in elements(vault) : Number(i.id) = parseInt(args.id)})
        store == IF at = 0 THEN vault ELSE [vault EXCEPT ![at].isPublic = TRUE]
    IN  IF ~Truthy(user_of(context)) THEN Throw("Not authenticated", store)
        ELSE IF at = 0 THEN Throw("Item not found", vault)
        ELSE Return(store[at], store)

\* variant: the flag is flipped instead of set
makeVaultItemPublic_toggle(args, context) ==
    IF ~Truthy(user_of(context)) THEN Throw("Not authenticated", vault)
    ELSE LET at == findIndex(vault, {i \in elements(vault) : Number(i.id) = parseInt(args.id)})
         IN  IF at = 0 THEN Throw("Item not found", vault)
             ELSE Return([vault[at] EXCEPT !.isPublic = ~vault[at].isPublic],
                         [vault EXCEPT ![at].isPublic = ~vault[at].isPublic])

\* variant: the caller becomes the owner of the item it publishes
makeVaultItemPublic_takeover(args, context) ==
    IF ~Truthy(user_of(context)) THEN Throw("Not authenticated", vault)
    ELSE LET at == findIndex(vault, {i \in elements(vault) : Number(i.id) = parseInt(args.id)})
             item == [vault[at] EXCEPT !.isPublic = TRUE, !.ownerId = user_of(context)[1].id]
         IN  IF at = 0 THEN Throw("Item not found", vault)
             ELSE Return(item, [vault EXCEPT ![at] = item])

makeVaultItemPublic(args, context) ==
    IF ~Truthy(user_of(context)) THEN Throw("Not authenticated", vault)
    ELSE LET at == findIndex(vault, {i \in elements(vault) : Number(i.id) = parseInt(args.id)})
         IN  IF at = 0 THEN Throw("Item not found", vault)
             ELSE Return([vault[at] EXCEPT !.isPublic = TRUE],
                         [vault EXCEPT ![at].isPublic = TRUE])

(***************************************************************************)
(* Requests.                                                               *)
(***************************************************************************)
\* a token signed with the process secret for a userId no identity has
StrangerToken ==
    [kind |-> "jwt", alg |-> "HS256", key |-> SECRET_KEY,
     payload |-> [userId |-> 4, role |-> "admin", exp |-> now + ExpirySeconds, iat |-> now]]

\* tokens for identity 1 that the service never signed: signed with a key that
\* is not the process secret, or unsigned under the algorithm 'none'
ForgedTokens ==
    { [kind |-> "jwt", alg |-> "HS256", key |-> OTHER_KEY,
       payload |-> [userId |-> 1, role |-> "admin", exp |-> now + ExpirySeconds, iat |-> now]],
      [kind |-> "jwt", alg |-> "none", key |-> SECRET_KEY,
       payload |-> [userId |-> 1, role |-> "admin", exp |-> now + ExpirySeconds, iat |-> now]] }

\* the token the client holds, if any, as a set
Held == {h[1] : h \in {held} \ {None}}

\* the authorization headers a request may carry: none, the token the client
\* holds (raw, behind 'Bearer ', or behind the prefix written twice), and
\* headers that carry no token the service issued
Authorizations ==
    {<<>>, <<BearerPrefix, Garbage>>, <<StrangerToken>>}
    \cup {<<t>> : t \in ForgedTokens}
    \cup {<<t>> : t \in Held}
    \cup {<<BearerPrefix, t>> : t \in Held}
    \cup {<<BearerPrefix, BearerPrefix, t>> : t \in Held}

\* login reads no context: its requests come without a header or with the held token
LoginAuthorizations == {<<>>} \cup {<<t>> : t \in Held}

Usernames == {"stewie", "admin", "user1"}

Passwords == {ADMIN_PASSWORD, "admin", "admin123", "wrongpass"}

SearchTerms == { <<>>, <<"F","L","A","G">>, <<"n","o","t","e">> }

Contents == { <<"m","y"," ","n","o","t","e">> }

\* the id argument: GraphQL's ID is handed to the resolver as a string
Ids == { <<"1">>, <<"2">>, <<"3">>, <<"4">>, <<"5">>, <<"9">>,
         <<" ","2","a">>, <<"a">>, <<>> }

NoRequest == [op |-> "none"]

\* the request just served: what it carried, the context resolved for it, the
\* item store as it found it, and what the query layer answered
Served(op, authorization, args, context, outcome) ==
    [op |-> op, authorization |-> authorization, args |-> args, context |-> context,
     before |-> vault, threw |-> outcome.threw, value |-> outcome.value]

Init ==
    /\ users = SeedUsers
    /\ vault = SeedVault
    /\ now = 0
    /\ held = None
    /\ last = NoRequest
    /\ pending = <<>>

Login ==
    /\ last = NoRequest
    /\ \E authorization \in LoginAuthorizations, username \in Usernames, password \in Passwords :
        LET context == authMiddleware([headers |-> [authorization |-> authorization]])
            args == [username |-> username, password |-> password]
            outcome == login(args, context)
        IN  /\ vault' = outcome.vault
            /\ held' = IF Truthy(outcome.value) THEN Some(outcome.value[1].token) ELSE held
            /\ last' = Served("login", authorization, args, context, outcome)
            /\ UNCHANGED <<users, now, pending>>

VaultItems ==
    /\ last = NoRequest
    /\ \E authorization \in Authorizations :
        LET context == authMiddleware([headers |-> [authorization |-> authorization]])
            outcome == vaultItems(<<>>, context)
        IN  /\ vault' = outcome.vault
            /\ last' = Served("vaultItems", authorization, <<>>, context, outcome)
            /\ UNCHANGED <<users, now, held, pending>>

PublicVaultItems ==
    /\ last = NoRequest
    /\ \E authorization \in Authorizations :
        LET context == authMiddleware([headers |-> [authorization |-> authorization]])
            outcome == publicVaultItems(<<>>, context)
        IN  /\ vault' = outcome.vault
            /\ last' = Served("publicVaultItems", authorization, <<>>, context, outcome)
            /\ UNCHANGED <<users, now, held, pending>>

SearchVault ==
    /\ last = NoRequest
    /\ \E authorization \in Authorizations, searchTerm \in SearchTerms :
        LET context == authMiddleware([headers |-> [authorization |-> authorization]])
            args == [searchTerm |-> searchTerm]
            outcome == searchVault(args, context)
        IN  /\ vault' = outcome.vault
            /\ last' = Served("searchVault", authorization, args, context, outcome)
            /\ UNCHANGED <<users, now, held, pending>>

CreateVaultItem ==
    /\ last = NoRequest
    /\ Len(vault) < MaxItems
    /\ \E authorization \in Authorizations, content \in Contents, isPublic \in BOOLEAN :
        LET context == authMiddleware([headers |-> [authorization |-> authorization]])
            args == [content |-> content, isPublic |-> isPublic]
            outcome == createVaultItem(args, context)
        IN  /\ vault' = outcome.vault
            /\ last' = Served("createVaultItem", authorization, args, context, outcome)
            /\ UNCHANGED <<users, now, held, pending>>

MakeVaultItemPublic ==
    /\ last = NoRequest
    /\ \E authorization \in Authorizations, id \in Ids :
        LET context == authMiddleware([headers |-> [authorization |-> authorization]])
            args == [id |-> id]
            outcome == makeVaultItemPublic(args, context)
        IN  /\ vault' = outcome.vault
            /\ last' = Served("makeVaultItemPublic", authorization, args, context, outcome)
            /\ UNCHANGED <<users, now, held, pending>>

\* the answer is sent and the request is over
Respond ==
    /\ last # NoRequest
    /\ last' = NoRequest
    /\ UNCHANGED <<users, vault, now, held, pending>>

\* the wall clock advances between requests
Tick ==
    /\ last = NoRequest
    /\ now < MaxTicks * Quantum
    /\ now' = now + Quantum
    /\ UNCHANGED <<users, vault, held, last, pending>>

Next ==
    \/ Login
    \/ VaultItems
    \/ PublicVaultItems
    \/ SearchVault
    \/ CreateVaultItem
    \/ MakeVaultItemPublic
    \/ Respond
    \/ Tick

Spec == Init /\ [][Next]_vars

\* ---- createVaultItem with its two store accesses as separate steps ----
\* The resolver reads vault.length when it builds newItem and appends with
\* vault.push afterwards.  Node runs the resolver to completion, which is
\* what CreateVaultItem above models; the two steps below are the same
\* statements under a runtime that lets another call run between them.

\* lines 132-138: the authentication check, and newItem built from the count
\* of the moment; the call is then in flight with its item
CreateVaultItemRead ==
    /\ last = NoRequest
    /\ Len(pending) < MaxInFlight
    /\ Len(vault) + Len(pending) < MaxRaceItems
    /\ \E authorization \in Authorizations, content \in Contents, isPublic \in BOOLEAN :
        LET context == authMiddleware([headers |-> [authorization |-> authorization]])
            args == [content |-> content, isPublic |-> isPublic]
            outcome == createVaultItem(args, context)
        IN  IF Truthy(outcome.threw)
            THEN /\ last' = Served("createVaultItem", authorization, args, context, outcome)
                 /\ UNCHANGED <<users, vault, now, held, pending>>
            ELSE /\ pending' = Append(pending, [authorization |-> authorization,
                                                args |-> args, context |-> context,
                                                count |-> Len(vault),
                                                newItem |-> outcome.value[1]])
                 /\ UNCHANGED <<users, vault, now, held, last>>

\* the in-flight calls without the k-th
Without(k) == [j \in 1..(Len(pending) - 1) |-> IF j < k THEN pending[j] ELSE pending[j + 1]]

\* variant: the id is assigned from the count at the moment of the append
CreateVaultItemPush_recount ==
    /\ last = NoRequest
    /\ \E k \in 1..Len(pending) :
        LET call == pending[k]
            newItem == [id |-> Len(vault) + 1, ownerId |-> call.newItem.ownerId,
                        content |-> call.newItem.content,
                        isPublic |-> call.newItem.isPublic]
        IN  /\ vault' = Append(vault, newItem)
            /\ pending' = Without(k)
            /\ last' = Served("createVaultItem", call.authorization, call.args,
                              call.context, Return(newItem, vault'))
            /\ UNCHANGED <<users, now, held>>

\* lines 139-140: an in-flight call appends the item it built and returns it
CreateVaultItemPush ==
    /\ last = NoRequest
    /\ \E k \in 1..Len(pending) :
        LET call == pending[k]
        IN  /\ vault' = Append(vault, call.newItem)
            /\ pending' = Without(k)
            /\ last' = Served("createVaultItem", call.authorization, call.args,
                              call.context, Return(call.newItem, vault'))
            /\ UNCHANGED <<users, now, held>>

RaceNext ==
    \/ Login
    \/ CreateVaultItemRead
    \/ CreateVaultItemPush
    \/ Respond

SpecRace == Init /\ [][RaceNext]_vars

(***************************************************************************)
(* Properties.  They read the request just served (last) and the stores.   *)
(***************************************************************************)
Requested(op) == last.op = op

\* the request just served was resolved to an identity
Authenticated == last.op # "none" /\ Truthy(user_of(last.context))

\* that identity
Caller == user_of(last.context)[1]

Succeeded == last.threw = None /\ last.value # None

Failed(message) == last.threw = Some(message) /\ last.value = None

\* the value returned by the request just served
Result == last.value[1]

\* term occurs in content at some offset
Occurs(term, content) ==
    \E p \in 0..Len(content) :
        /\ p + Len(term) <= Len(content)
        /\ \A k \in 1..Len(term) : content[p + k] = term[k]

\* the decimal numeral of a one-digit number
Decimal(n) == << CASE n = 0 -> "0" [] n = 1 -> "1" [] n = 2 -> "2" [] n = 3 -> "3"
                   [] n = 4 -> "4" [] n = 5 -> "5" [] n = 6 -> "6" [] n = 7 -> "7"
                   [] n = 8 -> "8" [] n = 9 -> "9" >>

\* C1: vaultItems called by an authenticated caller whose role is not exactly
\* "admin" (the misspelled "admiin" included) returns exactly the items the
\* caller owns or that are public, in store order, and so never an item that
\* is both owned by someone else and not public.
C1_NonAdminVaultItems ==
    (Requested("vaultItems") /\ Authenticated /\ Caller.role # "admin") =>
        LET OwnOrPublic(i) == i.ownerId = Caller.id \/ i.isPublic
        IN  /\ Succeeded
            /\ Result = SelectSeq(vault, OwnOrPublic)
            /\ \A k \in 1..Len(Result) :
                   ~(Result[k].ownerId # Caller.id /\ ~Result[k].isPublic)

\* the identity with role "admiin" lists the vault and items of others that
\* are not public are held back
C1_Witness ==
    /\ Requested("vaultItems") /\ Authenticated /\ Caller.role = "admiin"
    /\ Caller.username = "admin"
    /\ Succeeded
    /\ \E i \in 1..Len(vault) : vault[i].ownerId # Caller.id /\ ~vault[i].isPublic
    /\ Len(Result) >= 2 /\ Len(Result) < Len(vault)

\* C2: searchVault, for every term and every context, returns exactly the
\* items whose content contains the term and that are public or owned by the
\* authenticated caller; a non-public item never goes to an unauthenticated
\* or non-owning caller, whatever the caller's role.
C2_SearchVault ==
    Requested("searchVault") =>
        LET Visible(i) ==
                /\ Occurs(last.args.searchTerm, i.content)
                /\ (i.isPublic \/ (Authenticated /\ i.ownerId = Caller.id))
        IN  /\ Succeeded
            /\ Result = SelectSeq(vault, Visible)
            /\ \A k \in 1..Len(Result) :
                   ~Result[k].isPublic => (Authenticated /\ Result[k].ownerId = Caller.id)

\* the admin searches with the empty term, which every content contains, and
\* the private item of identity 2 is not returned
C2_Witness ==
    /\ Requested("searchVault") /\ Authenticated /\ Caller.role = "admin"
    /\ last.args.searchTerm = <<>>
    /\ ~vault[2].isPublic /\ vault[2].ownerId # Caller.id
    /\ Succeeded
    /\ \A k \in 1..Len(Result) : Result[k].id # 2
    /\ \E k \in 1..Len(Result) : Result[k].id = 1

\* C3: vaultItems called by an authenticated caller whose role is exactly
\* "admin" returns every item of the store, those neither owned nor public
\* and those created by others after startup included.
C3_AdminVaultItems ==
    (Requested("vaultItems") /\ Authenticated /\ Caller.role = "admin") =>
        /\ Succeeded
        /\ Result = vault
        /\ \A i \in 1..Len(vault) : \E k \in 1..Len(Result) : Result[k] = vault[i]

\* the admin lists a store that holds a private item created by another
\* identity after startup and the private seed item of identity 2
C3_Witness ==
    /\ Requested("vaultItems") /\ Authenticated /\ Caller.role = "admin"
    /\ Len(vault) > Len(SeedVault)
    /\ vault[Len(vault)].ownerId # Caller.id /\ ~vault[Len(vault)].isPublic
    /\ ~vault[2].isPublic
    /\ Succeeded
    /\ \E k \in 1..Len(Result) : Result[k] = vault[Len(vault)]
    /\ \E k \in 1..Len(Result) : Result[k] = vault[2]

\* C4: makeVaultItemPublic(id) by any authenticated identity, for the id of
\* an existing item, succeeds whoever owns the item, leaves that item public
\* and returns the item as mutated.
C4_PublishAnyItem ==
    (Requested("makeVaultItemPublic") /\ Authenticated) =>
        \A i \in 1..Len(last.before) :
            last.args.id = Decimal(last.before[i].id) =>
                /\ Succeeded
                /\ Len(vault) = Len(last.before)
                /\ vault[i].id = last.before[i].id
                /\ vault[i].isPublic
                /\ Result = vault[i]

\* identity 3 (role user) publishes the private item 1, which identity 1 owns
C4_Witness ==
    /\ Requested("makeVaultItemPublic") /\ Authenticated
    /\ Caller.id = 3 /\ Caller.role = "user"
    /\ last.args.id = <<"1">>
    /\ last.before[1].ownerId = 1 /\ ~last.before[1].isPublic
    /\ Succeeded /\ vault[1].isPublic /\ Result = vault[1]

\* the seed scenario: identity 1 publishes item 2 of the seed store
SeedScenario ==
    /\ Requested("makeVaultItemPublic") /\ Authenticated /\ Caller.id = 1
    /\ last.args.id = <<"2">>
    /\ last.before = SeedVault
    /\ last.before[2].id = 2 /\ last.before[2].ownerId = 2 /\ ~last.before[2].isPublic

\* an unauthenticated publicVaultItems call, served while item 2 is public,
\* includes item 2
PublicListHasItem2 ==
    (Requested("publicVaultItems") /\ last.authorization = <<>> /\ last.before[2].isPublic) =>
        /\ Succeeded
        /\ \E k \in 1..Len(Result) : Result[k].id = 2 /\ Result[k] = vault[2]

\* C5 as stated: in the seed scenario the caller, identity 1, is not an admin,
\* the call succeeds and item 2 is public afterwards and listed.
C5_AsStated ==
    /\ SeedScenario => (Caller.role # "admin" /\ Succeeded /\ vault[2].isPublic)
    /\ PublicListHasItem2

\* C5 (amended): in the seed scenario identity 1, whose role is "admin" and who
\* does not own item 2, calls makeVaultItemPublic(2): the call succeeds and
\* item 2 is public afterwards; item 2 stays public from then on, and every
\* later unauthenticated publicVaultItems call includes it.
C5_SeedScenario ==
    /\ [](SeedScenario => (Caller.role = "admin" /\ Caller.id # vault[2].ownerId
                           /\ Succeeded /\ vault[2].isPublic /\ Result = vault[2]))
    /\ [][vault[2].isPublic => vault'[2].isPublic]_vars
    /\ []PublicListHasItem2

\* identity 1 has just published item 2 of the seed store
C5_Witness ==
    /\ SeedScenario /\ Succeeded
    /\ vault[2].isPublic
    /\ vault = [SeedVault EXCEPT ![2].isPublic = TRUE]

\* what a presented header carries once an optional leading 'Bearer ' is dropped
Presented(authorization) ==
    IF authorization # <<>> /\ authorization[1].kind = "Bearer "
    THEN Tail(authorization) ELSE authorization

\* the header carries one encoded token
CarriesToken(authorization) ==
    Len(Presented(authorization)) = 1 /\ Presented(authorization)[1].kind = "jwt"

TokenOf(authorization) == Presented(authorization)[1]

\* the shape of the tokens login issues: for a registered identity, signed
\* with the process secret, expiring ExpirySeconds after the time of issue
IssuedByLogin(t) ==
    /\ t.kind = "jwt" /\ t.alg = "HS256" /\ t.key = SECRET_KEY
    /\ \E i \in 1..Len(users) :
           t.payload.userId = users[i].id /\ t.payload.role = users[i].role
    /\ t.payload.exp = t.payload.iat + ExpirySeconds
    /\ t.payload.iat <= now

\* a credential is presented and it is malformed, badly signed, expired, or
\* names a userId that no identity has
InvalidCredential(authorization) ==
    /\ authorization # <<>>
    /\ \/ ~CarriesToken(authorization)
       \/ TokenOf(authorization).key # SECRET_KEY
       \/ TokenOf(authorization).alg # "HS256"
       \/ now >= TokenOf(authorization).payload.exp
       \/ \A i \in 1..Len(users) : users[i].id # TokenOf(authorization).payload.userId

\* the outcome of the request just served had it come with no credential
\* (the resolvers read the store, which a refused or read-only request leaves
\* as it was)
AnonymousOutcome ==
    CASE last.op = "login" -> login(last.args, EmptyObject)
      [] last.op = "vaultItems" -> vaultItems(last.args, EmptyObject)
      [] last.op = "publicVaultItems" -> publicVaultItems(last.args, EmptyObject)
      [] last.op = "searchVault" -> searchVault(last.args, EmptyObject)
      [] last.op = "createVaultItem" -> createVaultItem(last.args, EmptyObject)
      [] last.op = "makeVaultItemPublic" -> makeVaultItemPublic(last.args, EmptyObject)

\* C6: a request whose credential fails verification, or names an unknown
\* userId, is resolved without error to a context with no identity, and each
\* of the six operations answers it as it answers a request without credential.
C6_InvalidCredentialIsAnonymous ==
    (last.op # "none" /\ InvalidCredential(last.authorization)) =>
        /\ ~Authenticated
        /\ (last.op # "login" => vault = last.before)
        /\ last.threw = AnonymousOutcome.threw
        /\ last.value = AnonymousOutcome.value
        /\ (last.op \in {"vaultItems", "createVaultItem", "makeVaultItemPublic"}
                => Failed("Not authenticated"))

\* vaultItems is refused for a well-signed token whose userId no identity has
C6_Witness ==
    /\ Requested("vaultItems")
    /\ last.authorization = <<StrangerToken>>
    /\ \A i \in 1..Len(users) : users[i].id # StrangerToken.payload.userId
    /\ Failed("Not authenticated")

\* C7: a token issued by login at time t expires at t + 3600: presented after
\* that time it resolves to a context with no identity, not to an error, and
\* the operations that need a session fail with "Not authenticated"; presented
\* before that time it resolves to an authenticated context.
C7_ExpiredTokenIsAnonymous ==
    (last.op # "none" /\ CarriesToken(last.authorization)
        /\ IssuedByLogin(TokenOf(last.authorization))) =>
        LET t == TokenOf(last.authorization)
        IN  /\ now > t.payload.iat + 3600 =>
                   /\ ~Authenticated
                   /\ (last.op \in {"vaultItems", "createVaultItem", "makeVaultItemPublic"}
                           => Failed("Not authenticated") /\ vault = last.before)
            /\ now < t.payload.iat + 3600 => Authenticated

\* a token issued at time 0 is presented after its expiry and the listing is
\* refused
C7_Witness ==
    /\ Requested("vaultItems")
    /\ CarriesToken(last.authorization)
    /\ IssuedByLogin(TokenOf(last.authorization))
    /\ TokenOf(last.authorization).payload.iat = 0
    /\ now > TokenOf(last.authorization).payload.exp
    /\ Failed("Not authenticated")

\* C8: the token login issues for an identity carries that identity's id and
\* role and expires exactly 3600 s after the time of issue; presented before
\* expiry, raw or behind 'Bearer ', a token issued by login resolves to a
\* context that carries the identity of that id as the credential store
\* records it.
C8_IssueThenResolve ==
    /\ (Requested("login") /\ Succeeded) =>
           /\ Result.token.payload.userId = Result.user.id
           /\ Result.token.payload.role = Result.user.role
           /\ Result.token.payload.exp = now + ExpirySeconds
           /\ Result.token.payload.exp - Result.token.payload.iat = 3600
           /\ IssuedByLogin(Result.token)
           /\ held = Some(Result.token)
    /\ (last.op # "none" /\ CarriesToken(last.authorization)
           /\ IssuedByLogin(TokenOf(last.authorization))
           /\ now < TokenOf(last.authorization).payload.exp) =>
           LET t == TokenOf(last.authorization)
           IN  /\ last.authorization \in {<<t>>, <<BearerPrefix, t>>}
               /\ Authenticated
               /\ Caller.id = t.payload.userId
               /\ Caller.role = t.payload.role
               /\ \E i \in 1..Len(users) : users[i] = Caller

\* the token held for identity 2 is presented behind 'Bearer ' later than it
\* was issued and resolves to identity 2
C8_Witness ==
    /\ last.op # "none" /\ held # None
    /\ last.authorization = <<BearerPrefix, held[1]>>
    /\ held[1].payload.iat < now /\ now < held[1].payload.exp
    /\ Authenticated /\ Caller.id = 2 /\ Caller.role = "admiin"
    /\ held[1].payload.userId = 2

\* C9: login succeeds exactly when a registered identity has that username
\* and that password, and then returns a token with that identity; otherwise
\* it fails with "Invalid credentials" and no token is issued.  The context of
\* the caller plays no part.
C9_Login ==
    Requested("login") =>
        LET Matches(u) == u.username = last.args.username /\ u.password = last.args.password
        IN  /\ Succeeded <=> \E i \in 1..Len(users) : Matches(users[i])
            /\ Succeeded =>
                   /\ Matches(Result.user)
                   /\ \E i \in 1..Len(users) : users[i] = Result.user
                   /\ Result.token.kind = "jwt"
                   /\ Result.token.payload.userId = Result.user.id
            /\ ~Succeeded => Failed("Invalid credentials")
            /\ vault = last.before

\* login("user1", "wrongpass") is refused
C9_Witness ==
    /\ Requested("login")
    /\ last.args = [username |-> "user1", password |-> "wrongpass"]
    /\ Failed("Invalid credentials")
    /\ held = None

\* C10: a failing operation leaves the item store as it was.  createVaultItem
\* without identity fails with "Not authenticated"; makeVaultItemPublic
\* without identity fails with "Not authenticated" whether or not the id
\* exists, and with identity and an id no item has it fails with "Item not
\* found"; no item and no isPublic changes in any of these cases.
C10_FailureLeavesStore ==
    /\ (last.op # "none" /\ last.threw # None) => (vault = last.before /\ last.value = None)
    /\ (Requested("createVaultItem") /\ ~Authenticated) =>
           /\ Failed("Not authenticated")
           /\ Len(vault) = Len(last.before) /\ vault = last.before
    /\ (Requested("makeVaultItemPublic") /\ ~Authenticated) =>
           /\ Failed("Not authenticated")
           /\ vault = last.before
    /\ (Requested("makeVaultItemPublic") /\ Authenticated
           /\ \A i \in 1..Len(last.before) : Number(last.before[i].id) # parseInt(last.args.id)) =>
           /\ Failed("Item not found")
           /\ vault = last.before

\* an unauthenticated caller names an existing private item and is refused,
\* and the item is still private
C10_Witness ==
    /\ Requested("makeVaultItemPublic") /\ ~Authenticated
    /\ last.args.id = <<"1">>
    /\ Failed("Not authenticated")
    /\ ~vault[1].isPublic /\ vault = last.before

\* item is one of the items of a returned list
Listed(item, list) == \E k \in 1..Len(list) : list[k] = item

\* C11: publishing is permanent and visible at once.  No step removes an
\* item, changes an item's id, owner or content, or takes back isPublic; the
\* item a successful makeVaultItemPublic returns is public in the store and a
\* publicVaultItems call, and a vaultItems call of any identity, made next
\* lists it; and every publicVaultItems call and every authenticated
\* vaultItems call lists all items that are public when it is made.
C11_PublishIsPermanent ==
    /\ [][/\ Len(vault') >= Len(vault)
          /\ \A i \in 1..Len(vault) :
                 /\ vault'[i].id = vault[i].id
                 /\ vault'[i].ownerId = vault[i].ownerId
                 /\ vault'[i].content = vault[i].content
                 /\ vault[i].isPublic => vault'[i].isPublic]_vars
    /\ []((Requested("makeVaultItemPublic") /\ Succeeded) =>
             /\ Result.isPublic
             /\ Listed(Result, vault)
             /\ Listed(Result, publicVaultItems(<<>>, EmptyObject).value[1])
             /\ \A u \in elements(users) :
                    Listed(Result, vaultItems(<<>>, [user |-> Some(u)]).value[1]))
    /\ []((Requested("publicVaultItems") \/ (Requested("vaultItems") /\ Authenticated)) =>
             /\ Succeeded
             /\ \A i \in 1..Len(last.before) :
                    last.before[i].isPublic => Listed(last.before[i], Result))

\* identity 3, neither owner nor admin, lists the vault and finds item 1 of
\* identity 1, which was private at startup and has been published since
C11_Witness ==
    /\ Requested("vaultItems") /\ Authenticated /\ Caller.id = 3
    /\ ~SeedVault[1].isPublic /\ SeedVault[1].ownerId = 1
    /\ vault[1].isPublic
    /\ Listed(vault[1], Result)

\* C12: every item of the store, seeded or created, is owned by a registered
\* identity.
C12_OwnersAreRegistered ==
    \A i \in 1..Len(vault) : \E k \in 1..Len(users) : vault[i].ownerId = users[k].id

\* identity 3 has just created an item, which the store holds under its id
C12_Witness ==
    /\ Requested("createVaultItem") /\ Authenticated /\ Caller.id = 3 /\ Succeeded
    /\ Len(vault) = Len(SeedVault) + 1
    /\ vault[Len(vault)].ownerId = 3
    /\ users[3].id = 3

\* C13: publicVaultItems returns exactly the public items, in store order,
\* whoever calls: the result is determined by the store alone, so calls made
\* with any two contexts on the same store return the same items.
C13_PublicVaultItems ==
    Requested("publicVaultItems") =>
        LET IsPublic(i) == i.isPublic
        IN  /\ Succeeded
            /\ Result = SelectSeq(last.before, IsPublic)
            /\ Result = SelectSeq(vault, IsPublic)

\* identity 2 asks for the public items while its own item 2 is private, and
\* item 2 is not listed
C13_Witness ==
    /\ Requested("publicVaultItems") /\ Authenticated /\ Caller.id = 2
    /\ vault[2].ownerId = 2 /\ ~vault[2].isPublic
    /\ Succeeded /\ ~Listed(vault[2], Result) /\ Len(Result) >= 1

\* C14: createVaultItem by an authenticated caller appends exactly one item,
\* owned by the caller, with id one more than the item count before the call
\* and the content and isPublic given; it returns that item, the store grows
\* by one and the items already there are unchanged.
C14_CreateAppendsOne ==
    (Requested("createVaultItem") /\ Authenticated) =>
        /\ Succeeded
        /\ Result = [id |-> Len(last.before) + 1, ownerId |-> Caller.id,
                     content |-> last.args.content, isPublic |-> last.args.isPublic]
        /\ Len(vault) = Len(last.before) + 1
        /\ vault[Len(vault)] = Result
        /\ \A i \in 1..Len(last.before) : vault[i] = last.before[i]

\* identity 2 has created a public item on a store in which item 1 had been
\* published
C14_Witness ==
    /\ Requested("createVaultItem") /\ Authenticated /\ Caller.id = 2 /\ Succeeded
    /\ last.args.isPublic
    /\ last.before[1].isPublic
    /\ Len(vault) = Len(last.before) + 1
    /\ Result.ownerId = 2 /\ Result.id = Len(vault)

\* C15: when other createVaultItem calls run between a call's read of the
\* item count and its append, the id of the appended item is the count the
\* call read plus one, not the count at the append plus one: the assignment
\* is not atomic, an id is at most the position of its item, and two items
\* of the store can have the same id.
C15_IdAssignmentNotAtomic ==
    /\ [](\A k \in 1..Len(vault) : vault[k].id <= k)
    /\ [][Len(vault') # Len(vault) =>
             \E k \in 1..Len(pending) :
                 /\ vault' = Append(vault, pending[k].newItem)
                 /\ pending[k].newItem.id = pending[k].count + 1
                 /\ pending[k].count <= Len(vault)
                 /\ last'.value = Some(pending[k].newItem)]_vars

\* two calls read the count 4 before either appended: items 5 and 6 of the
\* store both have id 5
C15_Witness ==
    /\ Requested("createVaultItem") /\ Succeeded
    /\ Len(vault) = Len(SeedVault) + 2
    /\ vault[Len(SeedVault) + 1].id = Len(SeedVault) + 1
    /\ vault[Len(SeedVault) + 2].id = Len(SeedVault) + 1
    /\ Result = vault[Len(vault)]

\* C16: with each request run to completion, the k-th item of the store has
\* id k: the ids are pairwise distinct, they are 1..N for a store of N items,
\* and the id handed to makeVaultItemPublic matches at most one item.
C16_IdsArePositions ==
    /\ \A k \in 1..Len(vault) : vault[k].id = k
    /\ \A j, k \in 1..Len(vault) : vault[j].id = vault[k].id => j = k
    /\ {vault[k].id : k \in 1..Len(vault)} = 1..Len(vault)
    /\ Requested("makeVaultItemPublic") =>
           Cardinality({k \in 1..Len(last.before) :
                           Number(last.before[k].id) = parseInt(last.args.id)}) <= 1

\* an item created after startup is published under its id, the count plus one
C16_Witness ==
    /\ Requested("makeVaultItemPublic") /\ Succeeded
    /\ Len(vault) = Len(SeedVault) + 1
    /\ parseInt(last.args.id) = Number(Len(vault))
    /\ Result = vault[Len(vault)] /\ Result.id = Len(SeedVault) + 1

\* C17: a successful makeVaultItemPublic(id) changes the isPublic field of
\* the item with that id and nothing else: id, owner and content of that
\* item, every other item, the item count and the credential store are as
\* before; on an item that is public already it changes nothing.
C17_PublishFrame ==
    (Requested("makeVaultItemPublic") /\ Succeeded) =>
        /\ users = SeedUsers
        /\ Len(vault) = Len(last.before)
        /\ \E i \in 1..Len(last.before) :
               /\ Number(last.before[i].id) = parseInt(last.args.id)
               /\ vault[i] = [id |-> last.before[i].id, ownerId |-> last.before[i].ownerId,
                              content |-> last.before[i].content, isPublic |-> TRUE]
               /\ Result = vault[i]
               /\ \A j \in 1..Len(last.before) : j # i => vault[j] = last.before[j]
               /\ last.before[i].isPublic => vault = last.before

\* a caller that does not own it publishes item 3, which is public already,
\* and the store is as before
C17_Witness ==
    /\ Requested("makeVaultItemPublic") /\ Authenticated /\ Succeeded
    /\ last.args.id = <<"3">>
    /\ Caller.id # last.before[3].ownerId
    /\ last.before[3].isPublic
    /\ vault = last.before

\* the request just served came without credential or with one that is invalid
Anonymous == last.op # "none"
             /\ (last.authorization = <<>> \/ InvalidCredential(last.authorization))

\* C18: requests without valid credential never change the store, and what
\* they are shown by publicVaultItems and searchVault is public; an item
\* that is not public becomes public only by a successful
\* makeVaultItemPublic of a caller with valid credential, and an item is
\* added only by a successful createVaultItem of such a caller.
C18_AnonymousCannotPublish ==
    /\ [](Anonymous => (~Authenticated /\ vault = last.before))
    /\ []((Anonymous /\ last.op \in {"publicVaultItems", "searchVault"}) =>
             /\ Succeeded
             /\ \A k \in 1..Len(Result) : Result[k].isPublic)
    /\ [][/\ (\E i \in 1..Len(vault) : ~vault[i].isPublic /\ vault'[i].isPublic) =>
                 (Requested("makeVaultItemPublic") /\ Succeeded /\ Authenticated
                  /\ ~Anonymous)'
          /\ Len(vault') # Len(vault) =>
                 (Requested("createVaultItem") /\ Succeeded /\ Authenticated
                  /\ ~Anonymous)']_vars

\* a search without credential returns item 1, private at startup and
\* published since
C18_Witness ==
    /\ Requested("searchVault") /\ last.authorization = <<>>
    /\ ~SeedVault[1].isPublic
    /\ vault[1].isPublic
    /\ Succeeded /\ Listed(vault[1], Result)

\* C19: login, vaultItems, publicVaultItems and searchVault leave the item
\* store as it was, whether they succeed or fail and whatever the context;
\* the credential store is the same in every state.
C19_ReadsLeaveStores ==
    /\ users = SeedUsers
    /\ last.op \in {"login", "vaultItems", "publicVaultItems", "searchVault"} =>
           vault = last.before

\* an unauthenticated vaultItems call has failed, and a store that holds a
\* private created item is as it was
C19_Witness ==
    /\ Requested("vaultItems") /\ Failed("Not authenticated")
    /\ Len(vault) > Len(SeedVault) /\ ~vault[Len(vault)].isPublic
    /\ vault = last.before /\ users = SeedUsers

====
